---- MODULE Spec2Model ----
(***************************************************************************)
(* Model of the contact reconciliation scripts of kc_missing_contacts.     *)
(*                                                                         *)
(* src/index.js holds two generations of the script.  The current pipeline *)
(* (lines 1-803) canonicalizes phones with toPhoneNumber and keeps the     *)
(* master / comparison stores with their duplicate-frequency maps; the     *)
(* earlier script (lines 805-1177) carries the standardizePhoneNumber      *)
(* variant with overflow extraction and the prefix list 91, 0, 00, +91,    *)
(* 091.  Phones and names are modelled as strings, character by character. *)
(***************************************************************************)
EXTENDS Integers, Sequences, FiniteSets, TLC

VARIABLES
    \* ---- a function applied to bounded inputs ----
    raw,        \* the raw value handed to the function: a phone, a name or a row
    result,     \* the function applied to raw
    again,      \* the function applied a second time
    stage,      \* canonicalizer: "head" | "ready" | "once" | "twice",
                \* or "phone" | "rephoned" for toPhoneNumber;
                \* cleanupName: "name" | "cleaned" | "recleaned";
                \* createContactKey: "row" | "keys"; "idle" in the pipeline
    \* ---- ContactProcessor.process ----
    pc,                       \* position in process(): "master" | "compare" | "diff" | "sort"
                              \* | "write" | "save" | "done"
    masterDir,                \* number of files under masterDir
    compareDir,               \* number of files under compareDir
    walked,                   \* files the running walkDirectory has yielded so far
    file,                     \* extension of the file whose try block is running, "" between files
    masterContacts,           \* Map phone -> contact {phone, name}
    compareContacts,          \* Map phone -> contact {phone, name}
    duplicateMasterContacts,  \* Map phone -> count
    duplicateCompareContacts, \* Map phone -> count
    duplicateNamesMap,        \* Map lowercased name -> count
    missingContacts,          \* Set of contacts, in insertion order
    sortedMissingContacts,    \* the array of the missing contacts, sorted by name
    stats,                    \* this.stats
    nRecords,                 \* records the readers have yielded so far
    \* ---- history of the run (observers, not program state) ----
    masterOffered,            \* the identities offered to the master store, in order
    compareOffered,           \* the identities offered to addToCompareContacts, in order
    compareAdmitted,          \* for each of them, whether compareContacts.set was reached
    outcomes,                 \* per finished file, in order: [corpus, ok]
    errorEvents,              \* number of 'error' events emitted
    spamAdmitted              \* phones admitted by addToCompareContacts although the extracted name held a blocked keyword

phoneVars == <<raw, result, again, stage>>
procVars == <<pc, file, masterContacts, compareContacts, duplicateMasterContacts,
              duplicateCompareContacts, duplicateNamesMap, missingContacts, stats,
              nRecords, masterDir, compareDir, walked, sortedMissingContacts>>
histVars == <<masterOffered, compareOffered, compareAdmitted, spamAdmitted, outcomes,
              errorEvents>>
vars == <<phoneVars, procVars, histVars>>

(***************************************************************************)
(* Bounds                                                                  *)
(***************************************************************************)
MaxHead == 4        \* free characters in front of the body of a raw phone
MaxRecords == 3     \* records read in one run, master and comparison together
MaxFiles == 2       \* files walked in one run, master and comparison together
MaxName == 4        \* characters of a raw name handed to cleanupName
MaxColumns == 4     \* columns of a row handed to createContactKey

(***************************************************************************)
(* String helpers (JavaScript String methods)                              *)
(***************************************************************************)
Digits == {"0", "1", "2", "3", "4", "5", "6", "7", "8", "9"}

Min(a, b) == IF a < b THEN a ELSE b

Char(s, i) == SubSeq(s, i, i)

\* s.startsWith(p)
StartsWith(s, p) == Len(p) <= Len(s) /\ SubSeq(s, 1, Len(p)) = p

\* s.endsWith(p)
EndsWith(s, p) == Len(p) <= Len(s) /\ SubSeq(s, Len(s) - Len(p) + 1, Len(s)) = p

\* s.includes(p)
Includes(s, p) == \E i \in 1..(Len(s) - Len(p) + 1) : SubSeq(s, i, i + Len(p) - 1) = p

\* s.slice(-n)
SliceLast(s, n) == IF Len(s) <= n THEN s ELSE SubSeq(s, Len(s) - n + 1, Len(s))

\* s.replace(p, '') for a string pattern p: the first occurrence is removed
RECURSIVE ReplaceFirst(_, _)
ReplaceFirst(s, p) ==
    IF Len(s) < Len(p) THEN s
    ELSE IF StartsWith(s, p) THEN SubSeq(s, Len(p) + 1, Len(s))
    ELSE Head(s) \o ReplaceFirst(Tail(s), p)

\* value.replace(/[^\d+]/g, ''): every digit and every '+' is kept
RECURSIVE ReplaceNonDigitPlus(_)
ReplaceNonDigitPlus(s) ==
    IF s = "" THEN ""
    ELSE (IF Head(s) \in Digits \cup {"+"} THEN Head(s) ELSE "")
         \o ReplaceNonDigitPlus(Tail(s))

\* variant: the loop stops after the first entry that matches
RECURSIVE ForEachPrefixRemove_StopAfterFirst(_, _)
ForEachPrefixRemove_StopAfterFirst(s, prefixes) ==
    IF prefixes = <<>> THEN s
    ELSE IF StartsWith(s, Head(prefixes)) THEN ReplaceFirst(s, Head(prefixes))
    ELSE ForEachPrefixRemove_StopAfterFirst(s, Tail(prefixes))

\* prefixes.forEach(prefix => { if (s.startsWith(prefix)) s = s.replace(prefix, '') })
RECURSIVE ForEachPrefixRemove(_, _)
ForEachPrefixRemove(s, prefixes) ==
    IF prefixes = <<>> THEN s
    ELSE ForEachPrefixRemove(
             IF StartsWith(s, Head(prefixes)) THEN ReplaceFirst(s, Head(prefixes)) ELSE s,
             Tail(prefixes))

(***************************************************************************)
(* standardizePhoneNumber, the variant with overflow extraction            *)
(***************************************************************************)
prefixToRemove == <<"91", "0", "00", "+91", "091">>

\* length of the run of digits of s that starts at position i
RECURSIVE DigitRun(_, _)
DigitRun(s, i) ==
    IF i > Len(s) \/ Char(s, i) \notin Digits THEN 0 ELSE 1 + DigitRun(s, i + 1)

\* the match of /(?:\+?\d{10,12})/ anchored at position i, "" when there is none
MatchAt(s, i) ==
    IF Char(s, i) = "+" /\ DigitRun(s, i + 1) >= 10
    THEN SubSeq(s, i, i + Min(12, DigitRun(s, i + 1)))
    ELSE IF DigitRun(s, i) >= 10
    THEN SubSeq(s, i, i + Min(12, DigitRun(s, i)) - 1)
    ELSE ""

\* cleanNumber.match(/(?:\+?\d{10,12})/): leftmost match, greedy; "" for null
OverflowMatch(s) ==
    LET at == {i \in 1..Len(s) : MatchAt(s, i) # ""}
    IN IF at = {} THEN ""
       ELSE MatchAt(s, CHOOSE i \in at : \A j \in at : i <= j)

standardizePhoneNumber(phone) ==
    IF phone = "" THEN ""
    ELSE LET cleanNumber == ReplaceNonDigitPlus(phone)
             stripped == IF Len(cleanNumber) > 10
                         THEN ForEachPrefixRemove(cleanNumber, prefixToRemove)
                         ELSE cleanNumber
         IN IF Len(cleanNumber) > 15 THEN OverflowMatch(cleanNumber)
            ELSE IF Len(stripped) < 10 THEN ""
            ELSE stripped

(***************************************************************************)
(* Canonicalizer harness: a raw value is a free head followed by a body    *)
(***************************************************************************)
HeadChars == {"+", "0", "9", "1", "-"}

Bodies == {"", "9876543210", "987654321", "98765+43210", "98765 43210",
           "9876543210987654", "98765432109876543210"}

StartHarness ==
    /\ raw = ""
    /\ result = ""
    /\ again = ""
    /\ stage = "head"

AppendHead(c) ==
    /\ stage = "head"
    /\ Len(raw) < MaxHead
    /\ raw' = raw \o c
    /\ UNCHANGED <<result, again, stage, procVars, histVars>>

AppendBody(b) ==
    /\ stage = "head"
    /\ raw' = raw \o b
    /\ stage' = "ready"
    /\ UNCHANGED <<result, again, procVars, histVars>>

Standardize ==
    /\ stage = "ready"
    /\ result' = standardizePhoneNumber(raw)
    /\ stage' = "once"
    /\ UNCHANGED <<raw, again, procVars, histVars>>

Restandardize ==
    /\ stage = "once"
    /\ again' = standardizePhoneNumber(result)
    /\ stage' = "twice"
    /\ UNCHANGED <<raw, result, procVars, histVars>>

(***************************************************************************)
(* toPhoneNumber, the canonicalizer of the current pipeline                *)
(* (standardizePhoneNumber of the current pipeline only forwards to it)    *)
(***************************************************************************)
toPhoneNumberPrefixToRemove == <<"0", "91", "+91", "091", "0091">>

invalidPrefix == {"1", "2", "3", "4", "5"}

toPhoneNumber(value) ==
    LET cleaned == ReplaceNonDigitPlus(value)
        toPhone == IF Len(cleaned) > 10
                   THEN ForEachPrefixRemove(cleaned, toPhoneNumberPrefixToRemove)
                   ELSE cleaned
    IN IF Len(toPhone) > 10 /\ Len(toPhone) < 13 /\ ~StartsWith(toPhone, "+") THEN ""
       ELSE IF Len(toPhone) > 14 /\ ~StartsWith(toPhone, "+") THEN ""
       ELSE IF toPhone # "" /\ Len(toPhone) > 9 /\ Head(toPhone) \notin invalidPrefix
            THEN toPhone
       ELSE ""

\* ---- toPhoneNumber applied to the bounded raw values, then to its own output ----
ToPhone ==
    /\ stage = "ready"
    /\ result' = toPhoneNumber(raw)
    /\ stage' = "phone"
    /\ UNCHANGED <<raw, again, procVars, histVars>>

ToPhoneAgain ==
    /\ stage = "phone"
    /\ again' = toPhoneNumber(result)
    /\ stage' = "rephoned"
    /\ UNCHANGED <<raw, result, procVars, histVars>>

(***************************************************************************)
(* Names: String.toLowerCase and cleanupName                               *)
(***************************************************************************)
UpperCase == "ABCDEFGHIJKLMNOPQRSTUVWXYZ"
LowerCase == "abcdefghijklmnopqrstuvwxyz"

CharsOf(s) == {Char(s, i) : i \in 1..Len(s)}

\* the lower-case letter of every upper-case letter
LowerOf ==
    [c \in CharsOf(UpperCase) |->
        Char(LowerCase, CHOOSE i \in 1..Len(UpperCase) : Char(UpperCase, i) = c)]

LowerChar(c) == IF c \in DOMAIN LowerOf THEN LowerOf[c] ELSE c

RECURSIVE ToLowerCase(_)
ToLowerCase(s) == IF s = "" THEN "" ELSE LowerChar(Head(s)) \o ToLowerCase(Tail(s))

Whitespace == {" ", "\t"}

\* the characters the class [^\u0900-\u097F\u0600-\u06FF\w\s\+\/\(\)\[\]] does not remove
\* (the Devanagari and Arabic ranges are outside the modelled alphabet)
KeptInName == CharsOf(UpperCase) \cup CharsOf(LowerCase) \cup Digits \cup {"_"}
              \cup Whitespace \cup {"+", "/", "(", ")", "[", "]"}

RECURSIVE TrimStart(_)
TrimStart(s) == IF s # "" /\ Head(s) \in Whitespace THEN TrimStart(Tail(s)) ELSE s

RECURSIVE TrimEnd(_)
TrimEnd(s) ==
    IF s # "" /\ Char(s, Len(s)) \in Whitespace THEN TrimEnd(SubSeq(s, 1, Len(s) - 1)) ELSE s

Trim(s) == TrimEnd(TrimStart(s))

RECURSIVE RemoveSpecial(_)
RemoveSpecial(s) ==
    IF s = "" THEN ""
    ELSE (IF Head(s) \in KeptInName THEN Head(s) ELSE "") \o RemoveSpecial(Tail(s))

\* .replace(/\s+/g, ' ')
RECURSIVE CollapseSpaces(_)
CollapseSpaces(s) ==
    IF s = "" THEN ""
    ELSE IF Head(s) \in Whitespace THEN " " \o CollapseSpaces(TrimStart(s))
    ELSE Head(s) \o CollapseSpaces(Tail(s))

RECURSIVE StripLeadingSlashes(_)
StripLeadingSlashes(s) == IF StartsWith(s, "/") THEN StripLeadingSlashes(Tail(s)) ELSE s

RECURSIVE StripTrailingSlashes(_)
StripTrailingSlashes(s) ==
    IF EndsWith(s, "/") THEN StripTrailingSlashes(SubSeq(s, 1, Len(s) - 1)) ELSE s

cleanupName(name) ==
    Trim(StripTrailingSlashes(StripLeadingSlashes(CollapseSpaces(RemoveSpecial(Trim(name))))))

\* ---- cleanupName applied to bounded names, then to its own output ----
NameChars == {"/", " ", "a", "."}

StartNameHarness ==
    /\ raw = ""
    /\ result = ""
    /\ again = ""
    /\ stage = "name"

AppendNameChar(c) ==
    /\ stage = "name"
    /\ Len(raw) < MaxName
    /\ raw' = raw \o c
    /\ UNCHANGED <<result, again, stage, procVars, histVars>>

CleanName ==
    /\ stage = "name"
    /\ result' = cleanupName(raw)
    /\ stage' = "cleaned"
    /\ UNCHANGED <<raw, again, procVars, histVars>>

RecleanName ==
    /\ stage = "cleaned"
    /\ again' = cleanupName(result)
    /\ stage' = "recleaned"
    /\ UNCHANGED <<raw, result, procVars, histVars>>

(***************************************************************************)
(* Map (insertion ordered) and the duplicate-frequency maps                *)
(***************************************************************************)
MapHas(map, key) == \E i \in 1..Len(map) : map[i].key = key

MapGet(map, key) == map[CHOOSE i \in 1..Len(map) : map[i].key = key].value

MapSet(map, key, value) ==
    IF MapHas(map, key)
    THEN [i \in 1..Len(map) |-> IF map[i].key = key THEN [key |-> key, value |-> value]
                                                   ELSE map[i]]
    ELSE Append(map, [key |-> key, value |-> value])

MapKeys(map) == {map[i].key : i \in 1..Len(map)}

\* variant: an empty key is not counted
addToDuplicateMap_SkipEmpty(map, key) ==
    LET k == ToLowerCase(key)
    IN IF k = "" THEN map
       ELSE IF ~MapHas(map, k) THEN MapSet(map, k, 1)
       ELSE MapSet(map, k, MapGet(map, k) + 1)

addToDuplicateMap(map, key) ==
    LET k == ToLowerCase(key)
    IN IF ~MapHas(map, k) THEN MapSet(map, k, 1) ELSE MapSet(map, k, MapGet(map, k) + 1)

(***************************************************************************)
(* Configuration of the current pipeline                                   *)
(***************************************************************************)
blockedPhonePrefixes == {"94544"}
blockedPhoneSuffixes == {"000000"}
prefixIfNoName == "KAS"
filterKeywords == {"spam", "All Bank Balance Enquiry No"}
replaceNamesStartingWith == {"name", "caller"}
numericFloor == "6000000000"    \* 6_000_000_000

nameColumnNames == <<"kc_name", "name", "first_name", "last_name", "given_name",
                     "short_name", "maiden_name", "middle_name", "family_name",
                     "additional_name", "yomi_name", "given_name_yomi",
                     "additional_name_yomi", "family_name_yomi", "nickname", "real_name">>

(***************************************************************************)
(* Number(phone) > 6_000_000_000, compared digit by digit because the      *)
(* values exceed the integers of the model checker                         *)
(***************************************************************************)
AllDigits(s) == \A i \in 1..Len(s) : Char(s, i) \in Digits

DigitValue(c) == CHOOSE d \in 0..9 : Char("0123456789", d + 1) = c

RECURSIVE StripLeadingZeros(_)
StripLeadingZeros(s) == IF StartsWith(s, "0") THEN StripLeadingZeros(Tail(s)) ELSE s

\* a > b for two digit strings of the same length
RECURSIVE DigitsGreater(_, _)
DigitsGreater(a, b) ==
    IF a = "" THEN FALSE
    ELSE IF Head(a) # Head(b) THEN DigitValue(Head(a)) > DigitValue(Head(b))
    ELSE DigitsGreater(Tail(a), Tail(b))

\* Number(s) > Number(floor); Number(s) is NaN unless s is an optionally signed
\* run of digits, and Number('') is 0
NumberGreaterThan(s, floor) ==
    LET body == IF StartsWith(s, "+") THEN Tail(s) ELSE s
        a == StripLeadingZeros(body)
        b == StripLeadingZeros(floor)
    IN /\ body # ""
       /\ AllDigits(body)
       /\ \/ Len(a) > Len(b)
          \/ Len(a) = Len(b) /\ DigitsGreater(a, b)

(***************************************************************************)
(* addToCompareContacts                                                    *)
(***************************************************************************)
\* contact.name after the defaulting and the placeholder substitution
ResolvedName(phone, name) ==
    LET named == IF name = "" THEN phone ELSE name
    IN IF \/ Includes(named, phone)
          \/ \E n \in replaceNamesStartingWith : StartsWith(ToLowerCase(named), n)
          \/ named = "0"
       THEN prefixIfNoName \o " " \o SliceLast(phone, 5)
       ELSE named

\* variant: the blocked suffixes are not looked at
Admissible_NoSuffixCheck(contacts, phone, name) ==
    LET cName == ToLowerCase(name)
    IN /\ ~MapHas(contacts, phone) \/ phone # name
       /\ ~\E k \in filterKeywords : Includes(cName, ToLowerCase(k))
       /\ NumberGreaterThan(phone, numericFloor)
       /\ ~\E prefix \in blockedPhonePrefixes : StartsWith(phone, prefix)

\* conditions.every(condition => condition)
Admissible(contacts, phone, name) ==
    LET cName == ToLowerCase(name)
    IN /\ ~MapHas(contacts, phone) \/ phone # name
       /\ ~\E k \in filterKeywords : Includes(cName, ToLowerCase(k))
       /\ NumberGreaterThan(phone, numericFloor)
       /\ ~\E prefix \in blockedPhonePrefixes : StartsWith(phone, prefix)
       /\ ~\E suffix \in blockedPhoneSuffixes : EndsWith(phone, suffix)

\* variant: the duplicate count is taken only for a contact that is stored
addToCompareContacts_CountAdmitted(st, phone, contact) ==
    LET name == ResolvedName(phone, contact.name)
        ok == Admissible(st.contacts, phone, name)
    IN [contacts |-> IF ok THEN MapSet(st.contacts, phone, [phone |-> contact.phone, name |-> name])
                           ELSE st.contacts,
        dup |-> IF ok THEN addToDuplicateMap(st.dup, contact.phone) ELSE st.dup,
        admitted |-> ok]

\* variant: an identity whose phone was counted before is stored under the placeholder
addToCompareContacts_PlaceholderOnRepeat(st, phone, contact) ==
    LET name == IF MapHas(st.dup, phone)
                THEN prefixIfNoName \o " " \o SliceLast(phone, 5)
                ELSE ResolvedName(phone, contact.name)
        ok == Admissible(st.contacts, phone, name)
    IN [contacts |-> IF ok THEN MapSet(st.contacts, phone, [phone |-> contact.phone, name |-> name])
                           ELSE st.contacts,
        dup |-> addToDuplicateMap(st.dup, contact.phone),
        admitted |-> ok]

\* variant: a phone that is already a key keeps its first contact
addToCompareContacts_KeepFirst(st, phone, contact) ==
    LET name == ResolvedName(phone, contact.name)
        ok == Admissible(st.contacts, phone, name)
    IN [contacts |-> IF ok /\ ~MapHas(st.contacts, phone)
                     THEN MapSet(st.contacts, phone, [phone |-> contact.phone, name |-> name])
                     ELSE st.contacts,
        dup |-> addToDuplicateMap(st.dup, contact.phone),
        admitted |-> ok]

\* st = [contacts |-> compareContacts, dup |-> duplicateCompareContacts,
\*       admitted |-> whether the previous call stored its contact]
addToCompareContacts(st, phone, contact) ==
    LET name == ResolvedName(phone, contact.name)
        ok == Admissible(st.contacts, phone, name)
    IN [contacts |-> IF ok THEN MapSet(st.contacts, phone, [phone |-> contact.phone, name |-> name])
                           ELSE st.contacts,
        dup |-> addToDuplicateMap(st.dup, contact.phone),
        admitted |-> ok]

(***************************************************************************)
(* Record readers and createContactKey                                     *)
(*   a card is [type |-> ".vcf", tels |-> <<...>>, fn |-> name]            *)
(*   a row  is [type |-> ".csv", cols |-> <<[col |-> c, val |-> v], ...>>] *)
(***************************************************************************)
VCF == ".vcf"
CSV == ".csv"

\* readVcfFileStream: one card per telephone value that standardizes to a
\* non-empty phone, carrying that phone as its only tel
RECURSIVE readVcfFileStream(_)
readVcfFileStream(card) ==
    IF card.tels = <<>> THEN <<>>
    ELSE LET phoneNumber == toPhoneNumber(Head(card.tels))
             rest == readVcfFileStream([card EXCEPT !.tels = Tail(card.tels)])
         IN IF phoneNumber # ""
            THEN <<[type |-> VCF, tels |-> <<phoneNumber>>, fn |-> card.fn]>> \o rest
            ELSE rest

\* contact[fieldName]; "" stands for undefined
Field(row, fieldName) ==
    IF \E i \in 1..Len(row.cols) : row.cols[i].col = fieldName
    THEN row.cols[CHOOSE i \in 1..Len(row.cols) : row.cols[i].col = fieldName].val
    ELSE ""

\* `${contact[fieldName]}`
TemplateField(row, fieldName) ==
    IF \E i \in 1..Len(row.cols) : row.cols[i].col = fieldName
    THEN Field(row, fieldName)
    ELSE "undefined"

\* phones of a card: every tel is standardized and pushed, empty or not
RECURSIVE VcfPhones(_)
VcfPhones(tels) ==
    IF tels = <<>> THEN <<>> ELSE <<toPhoneNumber(Head(tels))>> \o VcfPhones(Tail(tels))

\* variant: the loop over the columns ends at the first phone
RECURSIVE CsvPhones_FirstOnly(_)
CsvPhones_FirstOnly(cols) ==
    IF cols = <<>> THEN <<>>
    ELSE LET phone == toPhoneNumber(Head(cols).val)
         IN IF Head(cols).val # "" /\ phone # "" THEN <<phone>>
            ELSE CsvPhones_FirstOnly(Tail(cols))

\* phones of a row: every column, in column order, whose value standardizes
RECURSIVE CsvPhones(_)
CsvPhones(cols) ==
    IF cols = <<>> THEN <<>>
    ELSE LET phone == toPhoneNumber(Head(cols).val)
         IN (IF Head(cols).val # "" /\ phone # "" THEN <<phone>> ELSE <<>>)
            \o CsvPhones(Tail(cols))

\* the name of a row: the first candidate name column that has a value
RECURSIVE CsvName(_, _)
CsvName(row, names) ==
    IF names = <<>> THEN ""
    ELSE IF Field(row, Head(names)) # ""
    THEN IF Includes(Head(names), "first")
         THEN Trim(Field(row, Head(names)) \o " " \o TemplateField(row, "last_name"))
         ELSE Field(row, Head(names))
    ELSE CsvName(row, Tail(names))

createContactKey(contact, fileType) ==
    LET phones == IF fileType = VCF THEN VcfPhones(contact.tels) ELSE CsvPhones(contact.cols)
        name == cleanupName(IF fileType = VCF THEN contact.fn
                                              ELSE CsvName(contact, nameColumnNames))
    IN [i \in 1..Len(phones) |-> [phone |-> phones[i], name |-> name]]

\* the contacts one record of a file contributes, in order
RECURSIVE FlattenCards(_)
FlattenCards(cards) ==
    IF cards = <<>> THEN <<>>
    ELSE createContactKey(Head(cards), VCF) \o FlattenCards(Tail(cards))

ExtractContacts(record) ==
    IF record.type = VCF THEN FlattenCards(readVcfFileStream(record))
    ELSE createContactKey(record, CSV)

\* ---- createContactKey applied to bounded rows ----
ColumnNames == {"phone", "mobile", "home", "name"}

ColumnValues == {"", "9876543210", "+919000000002", "12345", "Amit /"}

StartRowHarness ==
    /\ raw = [type |-> CSV, cols |-> <<>>]
    /\ result = <<>>
    /\ again = ""
    /\ stage = "row"

\* the next column of the row; an object has every key once
AppendColumn(col, val) ==
    /\ stage = "row"
    /\ Len(raw.cols) < MaxColumns
    /\ \A i \in 1..Len(raw.cols) : raw.cols[i].col # col
    /\ raw' = [raw EXCEPT !.cols = Append(@, [col |-> col, val |-> val])]
    /\ UNCHANGED <<result, again, stage, procVars, histVars>>

CreateKeys ==
    /\ stage = "row"
    /\ result' = createContactKey(raw, CSV)
    /\ stage' = "keys"
    /\ UNCHANGED <<raw, again, procVars, histVars>>

(***************************************************************************)
(* The records the readers can yield                                       *)
(***************************************************************************)
Row(phone, name) ==
    [type |-> CSV, cols |-> <<[col |-> "phone", val |-> phone], [col |-> "name", val |-> name]>>]

Card(tels, fn) == [type |-> VCF, tels |-> tels, fn |-> fn]

MasterRecords ==
    { Row("8901234567", "A"),
      Row("8901234567", "C"),
      Row("+448901234567", "A"),
      Row("12345", "C"),
      Card(<<"910678901234567">>, "A"),
      Card(<<"+918901234567", "7001234567">>, "C") }

CompareRecords ==
    { Row("8901234567", "Amit"),
      Row("910678901234567", "Bob"),
      Row("9123456789", "spam caller"),
      Row("9123456789", "Caller SPAM"),
      Row("9123456789", ""),
      Card(<<"7001234567">>, "Amit"),
      Card(<<"910678901234567">>, "Bob") }

\* the records of the runs that are followed through to the reports
ReportMasterRecords ==
    { Row("9000000001", "X") }

ReportCompareRecords ==
    { Row("9000000001", "X"),
      Row("9000000002", "Y"),
      Row("9000000002", "Amit (1)"),
      Row("8901234567", "amit"),
      Row("8901234567", ""),
      Card(<<"8901234567">>, "Amit 8901234567"),
      Card(<<"7001234567", "7001234568">>, "Amit"),
      Card(<<"9000000003", "9000000004">>, "Bob") }

\* the records of the runs that exercise the conditions of the comparison store
StoreMasterRecords ==
    { Row("9123456789", "M") }

StoreCompareRecords ==
    { Row("9123456789", "Ravi"),
      Row("9123456789", "spam caller"),
      Row("9123456789", "Caller SPAM"),
      Row("9454412345", "Zed"),
      Row("9876000000", "Zed"),
      Row("+912345678", "Zed"),
      Row("+448901234567", "Ann"),
      Row("8901234567", "Ann") }

\* the master records of the runs whose corpora are ingested twice: one phone
\* under two names
ReingestMasterRecords ==
    { Row("8901234567", "A"),
      Row("8901234567", "C") }

FileTypes == {VCF, CSV}

\* the contacts each record yields (the extraction does not depend on the stores)
Extracted ==
    [record \in MasterRecords \cup CompareRecords \cup ReportMasterRecords
                \cup ReportCompareRecords \cup StoreMasterRecords
                \cup StoreCompareRecords \cup ReingestMasterRecords
                |-> ExtractContacts(record)]

(***************************************************************************)
(* ContactProcessor.process                                                *)
(***************************************************************************)
EmptyMap == <<>>

InitProcess ==
    /\ pc = "master"
    /\ file = ""
    /\ masterContacts = EmptyMap
    /\ compareContacts = EmptyMap
    /\ duplicateMasterContacts = EmptyMap
    /\ duplicateCompareContacts = EmptyMap
    /\ duplicateNamesMap = EmptyMap
    /\ missingContacts = <<>>
    /\ stats = [processed |-> 0, missing |-> 0, errors |-> 0, totalFiles |-> 0,
                totalMasterContacts |-> 0, uniqueMasterContacts |-> 0,
                totalCompareContacts |-> 0, uniqueCompareContacts |-> 0]
    /\ nRecords = 0
    /\ masterDir \in 0..MaxFiles
    /\ compareDir \in 0..MaxFiles
    /\ masterDir + compareDir <= MaxFiles
    /\ walked = 0
    /\ sortedMissingContacts = <<>>
    /\ masterOffered = <<>>
    /\ compareOffered = <<>>
    /\ compareAdmitted = <<>>
    /\ spamAdmitted = {}
    /\ outcomes = <<>>
    /\ errorEvents = 0

\* ---- observers ----
HasBlockedKeyword(name) ==
    \E k \in filterKeywords : Includes(ToLowerCase(name), ToLowerCase(k))

\* ---- master walk ----
\* variant: a phone that is already a key keeps its first contact
masterContactsSet_FirstWins(map, c) ==
    IF MapHas(map, c.phone) THEN map ELSE MapSet(map, c.phone, c)

\* masterContacts.set(c.phone, c)
masterContactsSet(map, c) == MapSet(map, c.phone, c)

\* contacts.forEach(c => { masterContacts.set(c.phone, c); ...; addToDuplicateMap(...) })
RECURSIVE AddAllToMaster(_, _)
AddAllToMaster(st, contacts) ==
    IF contacts = <<>> THEN st
    ELSE AddAllToMaster([contacts |-> masterContactsSet(st.contacts, Head(contacts)),
                         dup |-> addToDuplicateMap(st.dup, Head(contacts).phone)],
                        Tail(contacts))

MasterBeginFile(ext) ==
    /\ pc = "master"
    /\ file = ""
    /\ walked < masterDir
    /\ walked' = walked + 1
    /\ file' = ext
    /\ stats' = [stats EXCEPT !.totalFiles = @ + 1]
    /\ UNCHANGED <<pc, masterContacts, compareContacts, duplicateMasterContacts,
                   duplicateCompareContacts, duplicateNamesMap, missingContacts, nRecords>>
    /\ UNCHANGED <<masterDir, compareDir, sortedMissingContacts>>
    /\ UNCHANGED <<phoneVars, histVars>>

MasterRecord(record) ==
    /\ pc = "master"
    /\ file = record.type
    /\ nRecords < MaxRecords
    /\ LET contacts == Extracted[record]
           st == AddAllToMaster([contacts |-> masterContacts, dup |-> duplicateMasterContacts],
                                contacts)
       IN /\ masterContacts' = st.contacts
          /\ duplicateMasterContacts' = st.dup
          /\ stats' = [stats EXCEPT !.totalMasterContacts = @ + Len(contacts)]
          /\ masterOffered' = masterOffered \o contacts
    /\ nRecords' = nRecords + 1
    /\ UNCHANGED <<walked, outcomes, errorEvents>>
    /\ UNCHANGED <<pc, file, compareContacts, duplicateCompareContacts, duplicateNamesMap,
                   missingContacts>>
    /\ UNCHANGED <<masterDir, compareDir, sortedMissingContacts>>
    /\ UNCHANGED <<phoneVars, compareOffered, compareAdmitted,
                   spamAdmitted>>

MasterEndFile ==
    /\ pc = "master"
    /\ file # ""
    /\ file' = ""
    /\ stats' = [stats EXCEPT !.processed = @ + 1]
    /\ UNCHANGED <<pc, masterContacts, compareContacts, duplicateMasterContacts,
                   duplicateCompareContacts, duplicateNamesMap, missingContacts, nRecords>>
    /\ UNCHANGED <<masterDir, compareDir, sortedMissingContacts>>
    /\ outcomes' = Append(outcomes, [corpus |-> pc, ok |-> TRUE])
    /\ UNCHANGED <<phoneVars, walked, masterOffered, compareOffered, compareAdmitted,
                   spamAdmitted, errorEvents>>

\* variant: the failure of a file ends the run
MasterFailFile_Abort ==
    /\ pc = "master"
    /\ file # ""
    /\ file' = ""
    /\ stats' = [stats EXCEPT !.errors = @ + 1]
    /\ errorEvents' = errorEvents + 1
    /\ outcomes' = Append(outcomes, [corpus |-> pc, ok |-> FALSE])
    /\ pc' = "done"
    /\ UNCHANGED <<masterContacts, compareContacts, duplicateMasterContacts,
                   duplicateCompareContacts, duplicateNamesMap, missingContacts, nRecords>>
    /\ UNCHANGED <<masterDir, compareDir, sortedMissingContacts>>
    /\ UNCHANGED <<phoneVars, walked, masterOffered, compareOffered, compareAdmitted,
                   spamAdmitted>>

\* the reader throws: catch (error) { this.stats.errors++; this.emit('error', ...) }
MasterFailFile ==
    /\ pc = "master"
    /\ file # ""
    /\ file' = ""
    /\ stats' = [stats EXCEPT !.errors = @ + 1]
    /\ UNCHANGED <<pc, masterContacts, compareContacts, duplicateMasterContacts,
                   duplicateCompareContacts, duplicateNamesMap, missingContacts, nRecords>>
    /\ UNCHANGED <<masterDir, compareDir, sortedMissingContacts>>
    /\ errorEvents' = errorEvents + 1
    /\ outcomes' = Append(outcomes, [corpus |-> pc, ok |-> FALSE])
    /\ UNCHANGED <<phoneVars, walked, masterOffered, compareOffered, compareAdmitted,
                   spamAdmitted>>

\* walkDirectory(this.masterDir) is exhausted
MasterWalkDone ==
    /\ pc = "master"
    /\ file = ""
    /\ walked = masterDir
    /\ walked' = 0
    /\ pc' = "compare"
    /\ UNCHANGED <<file, masterContacts, compareContacts, duplicateMasterContacts,
                   duplicateCompareContacts, duplicateNamesMap, missingContacts, stats,
                   nRecords>>
    /\ UNCHANGED <<masterDir, compareDir, sortedMissingContacts>>
    /\ UNCHANGED <<phoneVars, histVars>>

\* ---- comparison walk ----
\* increaseTotalCompareContacts: only a non-empty phone is counted
RECURSIVE CountNonEmptyPhones(_)
CountNonEmptyPhones(contacts) ==
    IF contacts = <<>> THEN 0
    ELSE (IF Head(contacts).phone # "" THEN 1 ELSE 0) + CountNonEmptyPhones(Tail(contacts))

\* contacts.forEach(c => { increaseTotalCompareContacts(...); addToCompareContacts(c.phone, c) })
\* acc.spam collects the phones stored although the extracted name held a blocked keyword
RECURSIVE AddAllToCompare(_, _)
AddAllToCompare(acc, contacts) ==
    IF contacts = <<>> THEN acc
    ELSE LET c == Head(contacts)
             st == addToCompareContacts(acc.st, c.phone, c)
         IN AddAllToCompare(
                [st |-> st,
                 admitted |-> Append(acc.admitted, st.admitted),
                 spam |-> acc.spam \cup (IF st.admitted /\ HasBlockedKeyword(c.name)
                                         THEN {c.phone} ELSE {})],
                Tail(contacts))

CompareBeginFile(ext) ==
    /\ pc = "compare"
    /\ file = ""
    /\ walked < compareDir
    /\ walked' = walked + 1
    /\ file' = ext
    /\ stats' = [stats EXCEPT !.totalFiles = @ + 1]
    /\ UNCHANGED <<pc, masterContacts, compareContacts, duplicateMasterContacts,
                   duplicateCompareContacts, duplicateNamesMap, missingContacts, nRecords>>
    /\ UNCHANGED <<masterDir, compareDir, sortedMissingContacts>>
    /\ UNCHANGED <<phoneVars, histVars>>

CompareRecord(record) ==
    /\ pc = "compare"
    /\ file = record.type
    /\ nRecords < MaxRecords
    /\ LET contacts == Extracted[record]
           acc == AddAllToCompare(
                      [st |-> [contacts |-> compareContacts, dup |-> duplicateCompareContacts,
                               admitted |-> FALSE],
                       admitted |-> compareAdmitted,
                       spam |-> spamAdmitted],
                      contacts)
       IN /\ compareContacts' = acc.st.contacts
          /\ duplicateCompareContacts' = acc.st.dup
          /\ stats' = [stats EXCEPT !.totalCompareContacts = @ + CountNonEmptyPhones(contacts)]
          /\ compareOffered' = compareOffered \o contacts
          /\ compareAdmitted' = acc.admitted
          /\ spamAdmitted' = acc.spam
    /\ nRecords' = nRecords + 1
    /\ UNCHANGED <<walked, outcomes, errorEvents>>
    /\ UNCHANGED <<pc, file, masterContacts, duplicateMasterContacts, duplicateNamesMap,
                   missingContacts>>
    /\ UNCHANGED <<masterDir, compareDir, sortedMissingContacts>>
    /\ UNCHANGED <<phoneVars, masterOffered>>

\* variant: a comparison file that completes is counted as processed
CompareEndFile_Counted ==
    /\ pc = "compare"
    /\ file # ""
    /\ file' = ""
    /\ stats' = [stats EXCEPT !.processed = @ + 1]
    /\ outcomes' = Append(outcomes, [corpus |-> pc, ok |-> TRUE])
    /\ UNCHANGED <<pc, masterContacts, compareContacts, duplicateMasterContacts,
                   duplicateCompareContacts, duplicateNamesMap, missingContacts, nRecords>>
    /\ UNCHANGED <<masterDir, compareDir, sortedMissingContacts>>
    /\ UNCHANGED <<phoneVars, walked, masterOffered, compareOffered, compareAdmitted,
                   spamAdmitted, errorEvents>>

\* the comparison loop has no this.stats.processed++
CompareEndFile ==
    /\ pc = "compare"
    /\ file # ""
    /\ file' = ""
    /\ UNCHANGED <<pc, masterContacts, compareContacts, duplicateMasterContacts,
                   duplicateCompareContacts, duplicateNamesMap, missingContacts, stats,
                   nRecords>>
    /\ UNCHANGED <<masterDir, compareDir, sortedMissingContacts>>
    /\ outcomes' = Append(outcomes, [corpus |-> pc, ok |-> TRUE])
    /\ UNCHANGED <<phoneVars, walked, masterOffered, compareOffered, compareAdmitted,
                   spamAdmitted, errorEvents>>

\* variant: a failure discards what the comparison walk has stored and counted
CompareFailFile_Discard ==
    /\ pc = "compare"
    /\ file # ""
    /\ file' = ""
    /\ compareContacts' = <<>>
    /\ duplicateCompareContacts' = <<>>
    /\ stats' = [stats EXCEPT !.errors = @ + 1, !.totalCompareContacts = 0]
    /\ errorEvents' = errorEvents + 1
    /\ outcomes' = Append(outcomes, [corpus |-> pc, ok |-> FALSE])
    /\ UNCHANGED <<pc, masterContacts, duplicateMasterContacts, duplicateNamesMap,
                   missingContacts, nRecords>>
    /\ UNCHANGED <<masterDir, compareDir, sortedMissingContacts>>
    /\ UNCHANGED <<phoneVars, walked, masterOffered, compareOffered, compareAdmitted,
                   spamAdmitted>>

CompareFailFile ==
    /\ pc = "compare"
    /\ file # ""
    /\ file' = ""
    /\ stats' = [stats EXCEPT !.errors = @ + 1]
    /\ UNCHANGED <<pc, masterContacts, compareContacts, duplicateMasterContacts,
                   duplicateCompareContacts, duplicateNamesMap, missingContacts, nRecords>>
    /\ UNCHANGED <<masterDir, compareDir, sortedMissingContacts>>
    /\ errorEvents' = errorEvents + 1
    /\ outcomes' = Append(outcomes, [corpus |-> pc, ok |-> FALSE])
    /\ UNCHANGED <<phoneVars, walked, masterOffered, compareOffered, compareAdmitted,
                   spamAdmitted>>

\* variant: the comparison loop may be left while files remain
CompareWalkDone_Early ==
    /\ pc = "compare"
    /\ file = ""
    /\ walked' = 0
    /\ pc' = "diff"
    /\ UNCHANGED <<file, masterContacts, compareContacts, duplicateMasterContacts,
                   duplicateCompareContacts, duplicateNamesMap, missingContacts, stats,
                   nRecords>>
    /\ UNCHANGED <<masterDir, compareDir, sortedMissingContacts>>
    /\ UNCHANGED <<phoneVars, histVars>>

\* walkDirectory(this.compareDir) is exhausted
CompareWalkDone ==
    /\ pc = "compare"
    /\ file = ""
    /\ walked = compareDir
    /\ walked' = 0
    /\ pc' = "diff"
    /\ UNCHANGED <<file, masterContacts, compareContacts, duplicateMasterContacts,
                   duplicateCompareContacts, duplicateNamesMap, missingContacts, stats,
                   nRecords>>
    /\ UNCHANGED <<masterDir, compareDir, sortedMissingContacts>>
    /\ UNCHANGED <<phoneVars, histVars>>

\* ---- the two corpora ingested a second time ----
\* the walks over the same files yield the same identities in the same order;
\* again holds the two identities maps after the second ingestion
Reingest ==
    /\ pc = "diff"
    /\ stage = "idle"
    /\ again' =
          [master |-> AddAllToMaster([contacts |-> masterContacts,
                                      dup |-> duplicateMasterContacts],
                                     masterOffered).contacts,
           compare |-> AddAllToCompare(
                           [st |-> [contacts |-> compareContacts,
                                    dup |-> duplicateCompareContacts, admitted |-> FALSE],
                            admitted |-> <<>>,
                            spam |-> {}],
                           compareOffered).st.contacts]
    /\ stage' = "reingested"
    /\ UNCHANGED <<raw, result, procVars, histVars>>

\* ---- missing-set pass ----
\* missingContacts.has(<a phone string>): the Set holds contact objects only,
\* so no string is ever a member
MissingHasString(missing, str) == FALSE

\* variant: the master store is looked up under the phone with its country code only
isMissing_WithCountryCode(master, missing, phone) ==
    ~MapHas(master, "+91" \o phone) /\ ~MissingHasString(missing, phone)

isMissing(master, missing, phone) ==
    LET cleanPhone == SliceLast(toPhoneNumber(phone), 10)
        isMissing1 == ~MapHas(master, phone) /\ ~MissingHasString(missing, phone)
        isMissing2 == ~MapHas(master, cleanPhone) /\ ~MissingHasString(missing, cleanPhone)
    IN isMissing1 /\ isMissing2

\* allContacts.map(([phone, contact]) => ...) over the entries of compareContacts
RECURSIVE MissingPass(_, _, _)
MissingPass(acc, master, entries) ==
    IF entries = <<>> THEN acc
    ELSE LET phone == Head(entries).key
             contact == Head(entries).value
         IN MissingPass(
                IF isMissing(master, acc.missing, phone)
                THEN [missing |-> Append(acc.missing, contact),
                      names |-> addToDuplicateMap(acc.names, contact.name)]
                ELSE acc,
                master, Tail(entries))

ComputeMissing ==
    /\ pc = "diff"
    /\ LET acc == MissingPass([missing |-> missingContacts, names |-> duplicateNamesMap],
                              masterContacts, compareContacts)
       IN /\ missingContacts' = acc.missing
          /\ duplicateNamesMap' = acc.names
    /\ stats' = [stats EXCEPT !.uniqueMasterContacts = Len(masterContacts),
                              !.uniqueCompareContacts = Len(compareContacts)]
    /\ pc' = "sort"
    /\ UNCHANGED <<file, masterContacts, compareContacts, duplicateMasterContacts,
                   duplicateCompareContacts, nRecords>>
    /\ UNCHANGED <<masterDir, compareDir, sortedMissingContacts>>
    /\ UNCHANGED <<phoneVars, histVars, walked>>

\* ---- sort, unique names, reports ----
\* String.prototype.localeCompare under the default (root) collation: the
\* strings are compared character by character on their primary weights,
\* letters case-insensitively; strings equal on that level are ordered by the
\* first position that differs in case, the lower-case letter first
CollationOrder == " _()[]/+0123456789abcdefghijklmnopqrstuvwxyz"

PrimaryWeight ==
    [c \in CharsOf(CollationOrder) |->
        CHOOSE i \in 1..Len(CollationOrder) : Char(CollationOrder, i) = c]

Weight(c) == IF LowerChar(c) \in DOMAIN PrimaryWeight THEN PrimaryWeight[LowerChar(c)] ELSE 0

RECURSIVE PrimaryCompare(_, _)
PrimaryCompare(a, b) ==
    IF a = "" THEN (IF b = "" THEN 0 ELSE -1)
    ELSE IF b = "" THEN 1
    ELSE IF Weight(Head(a)) < Weight(Head(b)) THEN -1
    ELSE IF Weight(Head(a)) > Weight(Head(b)) THEN 1
    ELSE PrimaryCompare(Tail(a), Tail(b))

RECURSIVE CaseCompare(_, _)
CaseCompare(a, b) ==
    IF a = "" \/ b = "" THEN 0
    ELSE IF Head(a) = Head(b) THEN CaseCompare(Tail(a), Tail(b))
    ELSE IF Head(a) \in CharsOf(LowerCase) THEN -1 ELSE 1

localeCompare(a, b) ==
    LET primary == PrimaryCompare(a, b)
    IN IF primary # 0 THEN primary ELSE CaseCompare(a, b)

\* Array.prototype.sort is stable: an element goes behind the elements that
\* compare equal to it
RECURSIVE InsertByName(_, _)
InsertByName(sorted, c) ==
    IF sorted = <<>> THEN <<c>>
    ELSE IF localeCompare(sorted[Len(sorted)].name, c.name) <= 0 THEN Append(sorted, c)
    ELSE Append(InsertByName(SubSeq(sorted, 1, Len(sorted) - 1), c), sorted[Len(sorted)])

\* [...missingContacts].sort((a, b) => a.name.localeCompare(b.name))
RECURSIVE SortByName(_)
SortByName(contacts) ==
    IF contacts = <<>> THEN <<>>
    ELSE InsertByName(SortByName(SubSeq(contacts, 1, Len(contacts) - 1)),
                      contacts[Len(contacts)])

RECURSIVE InsertByLowerName(_, _)
InsertByLowerName(sorted, c) ==
    IF sorted = <<>> THEN <<c>>
    ELSE IF localeCompare(ToLowerCase(sorted[Len(sorted)].name), ToLowerCase(c.name)) <= 0
         THEN Append(sorted, c)
    ELSE Append(InsertByLowerName(SubSeq(sorted, 1, Len(sorted) - 1), c),
                sorted[Len(sorted)])

\* sortArrayByKey(array, 'name'): in place, on the lower-cased names
RECURSIVE sortArrayByKey(_)
sortArrayByKey(array) ==
    IF array = <<>> THEN <<>>
    ELSE InsertByLowerName(sortArrayByKey(SubSeq(array, 1, Len(array) - 1)),
                           array[Len(array)])

makeNameUnique == TRUE

\* variant: the counter is never set back to 1
RECURSIVE UniqueNames_NoRestart(_, _, _, _, _)
UniqueNames_NoRestart(contacts, names, unique, nameCount, prevName) ==
    IF contacts = <<>> THEN <<>>
    ELSE LET name == Head(contacts).name
             key == ToLowerCase(name)
             count == IF MapHas(names, key) THEN MapGet(names, key) ELSE 0
             n == nameCount + 1
         IN IF unique /\ count > 1
            THEN <<name \o " (" \o ToString(n) \o ")">>
                 \o UniqueNames_NoRestart(Tail(contacts), names, unique, n, name)
            ELSE <<name>>
                 \o UniqueNames_NoRestart(Tail(contacts), names, unique, nameCount, prevName)

\* the names the loop over sortedMissingContacts writes, in order; nameCount and
\* prevName are the loop's two variables
RECURSIVE UniqueNames(_, _, _, _, _)
UniqueNames(contacts, names, unique, nameCount, prevName) ==
    IF contacts = <<>> THEN <<>>
    ELSE LET name == Head(contacts).name
             key == ToLowerCase(name)
             count == IF MapHas(names, key) THEN MapGet(names, key) ELSE 0
             same == key = ToLowerCase(prevName)
             n == IF same THEN nameCount + 1 ELSE 1
         IN IF unique /\ count > 1
            THEN <<name \o " (" \o ToString(n) \o ")">>
                 \o UniqueNames(Tail(contacts), names, unique, n,
                                IF same THEN prevName ELSE name)
            ELSE <<name>> \o UniqueNames(Tail(contacts), names, unique, nameCount, prevName)

\* contact.name = name: the contact of sortedMissingContacts is the object that
\* missingContacts and compareContacts hold, identified by its phone
NameAfter(sorted, names, c) ==
    IF \E i \in 1..Len(sorted) : sorted[i].phone = c.phone
    THEN names[CHOOSE i \in 1..Len(sorted) : sorted[i].phone = c.phone]
    ELSE c.name

SortMissing ==
    /\ pc = "sort"
    /\ sortedMissingContacts' = SortByName(missingContacts)
    /\ pc' = "write"
    /\ UNCHANGED <<file, masterContacts, compareContacts, duplicateMasterContacts,
                   duplicateCompareContacts, duplicateNamesMap, missingContacts, stats,
                   nRecords>>
    /\ UNCHANGED <<masterDir, compareDir, walked>>
    /\ UNCHANGED <<phoneVars, histVars>>

\* for (const contact of sortedMissingContacts) { ...; this.stats.missing++ }
WriteMissing ==
    /\ pc = "write"
    /\ LET names == UniqueNames(sortedMissingContacts, duplicateNamesMap, makeNameUnique,
                                0, "")
           Renamed(c) == [c EXCEPT !.name = NameAfter(sortedMissingContacts, names, c)]
       IN /\ sortedMissingContacts' =
                 [i \in 1..Len(sortedMissingContacts) |-> Renamed(sortedMissingContacts[i])]
          /\ missingContacts' =
                 [i \in 1..Len(missingContacts) |-> Renamed(missingContacts[i])]
          /\ compareContacts' =
                 [i \in 1..Len(compareContacts) |->
                     [key |-> compareContacts[i].key,
                      value |-> Renamed(compareContacts[i].value)]]
    /\ stats' = [stats EXCEPT !.missing = @ + Len(sortedMissingContacts)]
    /\ pc' = "save"
    /\ UNCHANGED <<file, masterContacts, duplicateMasterContacts, duplicateCompareContacts,
                   duplicateNamesMap, nRecords>>
    /\ UNCHANGED <<masterDir, compareDir, walked>>
    /\ UNCHANGED <<phoneVars, histVars>>

\* saveArrayAsXlsx(sortArrayByKey(sortedMissingContacts, 'name'), ...); return this.stats
SaveReports ==
    /\ pc = "save"
    /\ sortedMissingContacts' = sortArrayByKey(sortedMissingContacts)
    /\ pc' = "done"
    /\ UNCHANGED <<file, masterContacts, compareContacts, duplicateMasterContacts,
                   duplicateCompareContacts, duplicateNamesMap, missingContacts, stats,
                   nRecords>>
    /\ UNCHANGED <<masterDir, compareDir, walked>>
    /\ UNCHANGED <<phoneVars, histVars>>

(***************************************************************************)
(* Specifications                                                          *)
(***************************************************************************)
Init ==
    /\ InitProcess
    /\ raw = "" /\ result = "" /\ again = "" /\ stage = "idle"

Next ==
    \/ \E ext \in FileTypes : MasterBeginFile(ext)
    \/ \E record \in MasterRecords : MasterRecord(record)
    \/ MasterEndFile
    \/ MasterFailFile
    \/ MasterWalkDone
    \/ \E ext \in FileTypes : CompareBeginFile(ext)
    \/ \E record \in CompareRecords : CompareRecord(record)
    \/ CompareEndFile
    \/ CompareFailFile
    \/ CompareWalkDone
    \/ ComputeMissing
    \/ SortMissing
    \/ WriteMissing
    \/ SaveReports

Spec == Init /\ [][Next]_vars

\* process() on the records that are followed through to the reports
NextReport ==
    \/ \E ext \in FileTypes : MasterBeginFile(ext)
    \/ \E record \in ReportMasterRecords : MasterRecord(record)
    \/ MasterEndFile
    \/ MasterFailFile
    \/ MasterWalkDone
    \/ \E ext \in FileTypes : CompareBeginFile(ext)
    \/ \E record \in ReportCompareRecords : CompareRecord(record)
    \/ CompareEndFile
    \/ CompareFailFile
    \/ CompareWalkDone
    \/ ComputeMissing
    \/ SortMissing
    \/ WriteMissing
    \/ SaveReports

SpecReport == Init /\ [][NextReport]_vars

\* process() on the records that exercise the conditions of the comparison store
NextStore ==
    \/ \E ext \in FileTypes : MasterBeginFile(ext)
    \/ \E record \in StoreMasterRecords : MasterRecord(record)
    \/ MasterEndFile
    \/ MasterFailFile
    \/ MasterWalkDone
    \/ \E ext \in FileTypes : CompareBeginFile(ext)
    \/ \E record \in StoreCompareRecords : CompareRecord(record)
    \/ CompareEndFile
    \/ CompareFailFile
    \/ CompareWalkDone
    \/ ComputeMissing
    \/ SortMissing
    \/ WriteMissing
    \/ SaveReports

SpecStore == Init /\ [][NextStore]_vars

\* the ingestion of process(), followed by a second ingestion of the same corpora
NextReingest ==
    \/ \E ext \in FileTypes : MasterBeginFile(ext)
    \/ \E record \in ReingestMasterRecords : MasterRecord(record)
    \/ MasterEndFile
    \/ MasterFailFile
    \/ MasterWalkDone
    \/ \E ext \in FileTypes : CompareBeginFile(ext)
    \/ \E record \in ReportCompareRecords : CompareRecord(record)
    \/ CompareEndFile
    \/ CompareFailFile
    \/ CompareWalkDone
    \/ Reingest

SpecReingest == Init /\ [][NextReingest]_vars

\* the canonicalizer applied to bounded raw values
InitPhone ==
    /\ StartHarness
    /\ InitProcess
    /\ masterDir = 0
    /\ compareDir = 0

NextPhone ==
    \/ \E c \in HeadChars : AppendHead(c)
    \/ \E b \in Bodies : AppendBody(b)
    \/ Standardize
    \/ Restandardize

SpecPhone == InitPhone /\ [][NextPhone]_vars

\* the canonicalizer of the current pipeline applied to the same raw values
NextToPhone ==
    \/ \E c \in HeadChars : AppendHead(c)
    \/ \E b \in Bodies : AppendBody(b)
    \/ ToPhone
    \/ ToPhoneAgain

SpecToPhone == InitPhone /\ [][NextToPhone]_vars

\* the name cleanup applied to bounded raw names
InitName ==
    /\ StartNameHarness
    /\ InitProcess
    /\ masterDir = 0
    /\ compareDir = 0

NextName ==
    \/ \E c \in NameChars : AppendNameChar(c)
    \/ CleanName
    \/ RecleanName

SpecName == InitName /\ [][NextName]_vars

\* the key extraction applied to bounded rows
InitRow ==
    /\ StartRowHarness
    /\ InitProcess
    /\ masterDir = 0
    /\ compareDir = 0

NextRow ==
    \/ \E col \in ColumnNames, val \in ColumnValues : AppendColumn(col, val)
    \/ CreateKeys

SpecRow == InitRow /\ [][NextRow]_vars

(***************************************************************************)
(* Properties                                                              *)
(***************************************************************************)
RECURSIVE OnlyDigits(_)
OnlyDigits(s) ==
    IF s = "" THEN ""
    ELSE (IF Head(s) \in Digits THEN Head(s) ELSE "") \o OnlyDigits(Tail(s))

\* the trailing 10 digits of a phone
TrailingTenDigits(phone) == SliceLast(OnlyDigits(phone), 10)

\* the contact stored under this phone was put into the missing set
InMissing(phone) == \E i \in 1..Len(missingContacts) : missingContacts[i].phone = phone

DiffDone == pc \in {"sort", "write", "save", "done"}

\* C1: after both corpora are ingested, a comparison entry is in the missing
\* set if and only if the master store has neither the key phone nor the key
\* shortPhone, the canonical form of the trailing 10 digits of phone.
C1_MissingIffNoMasterKey ==
    DiffDone =>
        \A i \in 1..Len(compareContacts) :
            LET phone == compareContacts[i].key
                shortPhone == toPhoneNumber(TrailingTenDigits(phone))
            IN InMissing(phone) <=>
                   (~MapHas(masterContacts, phone) /\ ~MapHas(masterContacts, shortPhone))

\* C2: whenever a master phone and a comparison phone have equal trailing 10
\* digits, the comparison identity is not in the missing set.
C2_TrailingTenFallback ==
    DiffDone =>
        \A m \in MapKeys(masterContacts), c \in MapKeys(compareContacts) :
            (Len(OnlyDigits(m)) >= 10 /\ TrailingTenDigits(m) = TrailingTenDigits(c))
                => ~InMissing(c)

\* C3: a comparison identity whose extracted name contains a blocked keyword
\* (case-insensitively) is never stored by addToCompareContacts.
C3_BlockedKeywordNeverStored == spamAdmitted = {}

\* the positions of the identities offered with this phone
OfferedAt(offered, phone) == {i \in 1..Len(offered) : offered[i].phone = phone}

Last(S) == CHOOSE i \in S : \A j \in S : j <= i

\* C4: master insertion is an unconditional upsert, last write wins: every
\* phone that was inserted at least once maps to the identity of the most
\* recent insertion with that phone.
C4_MasterLastWriteWins ==
    \A i \in 1..Len(masterOffered) :
        LET phone == masterOffered[i].phone
        IN /\ MapHas(masterContacts, phone)
           /\ MapGet(masterContacts, phone) = masterOffered[Last(OfferedAt(masterOffered, phone))]

\* a phone was inserted twice, under two names, with another phone in between
C4_Witness ==
    \E i, j, k \in 1..Len(masterOffered) :
        /\ i < j /\ j < k
        /\ masterOffered[i].phone = masterOffered[k].phone
        /\ masterOffered[i].name # masterOffered[k].name
        /\ masterOffered[j].phone # masterOffered[i].phone
        /\ masterOffered[j].phone # ""

\* the duplicate-frequency map counts exactly the identities offered
CountsOffered(dup, offered) ==
    /\ MapKeys(dup) = {offered[i].phone : i \in 1..Len(offered)}
    /\ \A phone \in MapKeys(dup) : MapGet(dup, phone) = Cardinality(OfferedAt(offered, phone))

\* C5: for each corpus duplicateFrequency[p] is exactly the number of
\* extracted identities with phone p that were offered to the store, admitted
\* into the identities map or not.
C5_DuplicateFrequencyCountsOffers ==
    /\ CountsOffered(duplicateMasterContacts, masterOffered)
    /\ CountsOffered(duplicateCompareContacts, compareOffered)

\* a phone was offered to the comparison store twice; one offer was rejected
\* for its name and the other one was stored
C5_Witness ==
    \E i, j \in 1..Len(compareOffered) :
        /\ i # j
        /\ compareOffered[i].phone = compareOffered[j].phone
        /\ compareOffered[i].name = "spam caller"
        /\ MapHas(compareContacts, compareOffered[i].phone)
        /\ MapGet(duplicateCompareContacts, compareOffered[i].phone) = 2

Applied == stage \in {"once", "twice"}

cleanNumber == ReplaceNonDigitPlus(raw)

\* C6: standardizePhoneNumber is idempotent on every input with a non-empty result.
C6_StandardizeIdempotent ==
    (stage = "twice" /\ result # "") => again = result

\* C7: every non-empty result has 10 to 15 characters, an optional single
\* leading '+' and digits only after it.
C7_LengthAndShape ==
    (Applied /\ result # "") =>
        /\ Len(result) >= 10 /\ Len(result) <= 15
        /\ Char(result, 1) \in Digits \cup {"+"}
        /\ \A i \in 2..Len(result) : Char(result, i) \in Digits

\* the first list entry that matches is removed, and nothing after it
RECURSIVE RemoveFirstMatching(_, _)
RemoveFirstMatching(s, prefixes) ==
    IF prefixes = <<>> THEN s
    ELSE IF StartsWith(s, Head(prefixes)) THEN SubSeq(s, Len(Head(prefixes)) + 1, Len(s))
    ELSE RemoveFirstMatching(s, Tail(prefixes))

LengthChecked(s) == IF Len(s) < 10 THEN "" ELSE s

\* C8 as stated: for a cleaned input of 11 to 15 characters at most one prefix
\* is removed, the first list entry that matches, and none after it.
C8_AtMostOnePrefix ==
    (Applied /\ Len(cleanNumber) >= 11 /\ Len(cleanNumber) <= 15) =>
        result = LengthChecked(RemoveFirstMatching(cleanNumber, prefixToRemove))

PrefixTurns == 1..Len(prefixToRemove)

\* characters removed before the turn of entry k when S are the entries removed
RECURSIVE RemovedBefore(_, _)
RemovedBefore(S, k) ==
    IF k = 1 THEN 0
    ELSE RemovedBefore(S, k - 1) + (IF (k - 1) \in S THEN Len(prefixToRemove[k - 1]) ELSE 0)

AtTurn(s, S, k) == SubSeq(s, RemovedBefore(S, k) + 1, Len(s))

\* the entries removed from s: an entry is removed exactly if the string, as
\* shortened by the entries removed before it, starts with it
RemovedEntries(s) ==
    {S \in SUBSET PrefixTurns :
        \A k \in PrefixTurns : k \in S <=> StartsWith(AtTurn(s, S, k), prefixToRemove[k])}

\* C8 amended: for a cleaned input of 11 to 15 characters every list entry is
\* tried once, in list order, against the string as shortened so far and is
\* removed if it matches at its turn, so several entries can be removed; the
\* result is empty when fewer than 10 characters remain.
C8_EveryMatchingPrefixInTurn ==
    (Applied /\ Len(cleanNumber) >= 11 /\ Len(cleanNumber) <= 15) =>
        \E S \in RemovedEntries(cleanNumber) :
            result = LengthChecked(AtTurn(cleanNumber, S, Len(prefixToRemove) + 1))

\* two entries were removed from one input: 0 and then 091
C8_Witness ==
    /\ stage = "once"
    /\ Len(cleanNumber) >= 11 /\ Len(cleanNumber) <= 15
    /\ {2, 5} \in RemovedEntries(cleanNumber)
    /\ result = SubSeq(cleanNumber, 5, Len(cleanNumber))

\* C9: neither store ever has the empty string as a key.
C9_NoEmptyPhoneKey ==
    /\ ~MapHas(masterContacts, "")
    /\ ~MapHas(compareContacts, "")

\* C10: a cleaned input of more than 15 characters that starts with a valid
\* 10-digit number n followed by further digits yields n.
C10_FirstNumberExtracted ==
    LET n == SubSeq(cleanNumber, 1, 10)
    IN (Applied /\ Len(cleanNumber) > 15 /\ AllDigits(cleanNumber)
            /\ standardizePhoneNumber(n) = n)
        => result = n

\* C11: cleanupName is idempotent: cleaning an already cleaned name returns it
\* unchanged, cleanupName(cleanupName(s)) = cleanupName(s)
C11_CleanupNameIdempotent == stage = "recleaned" => again = result

\* the names of a sequence of contacts, lower-cased
LowerNames(contacts) == [i \in 1..Len(contacts) |-> ToLowerCase(contacts[i].name)]

Written == pc \in {"save", "done"}

\* C12: with makeNameUnique enabled, after the unique-name pass no two entries
\* of the missing list have the same name, compared case-insensitively.
C12_NoTwoMissingNamesEqual ==
    (makeNameUnique /\ Written) =>
        \A i, j \in 1..Len(sortedMissingContacts) :
            i # j => ToLowerCase(sortedMissingContacts[i].name)
                         # ToLowerCase(sortedMissingContacts[j].name)

\* the maximal run of entries around position i that share the lower-cased name
RunOf(contacts, i) ==
    {j \in 1..Len(contacts) :
        \A k \in (IF j < i THEN j..i ELSE i..j) :
            ToLowerCase(contacts[k].name) = ToLowerCase(contacts[i].name)}

Occurrences(contacts, i) ==
    Cardinality({j \in 1..Len(contacts) :
                    ToLowerCase(contacts[j].name) = ToLowerCase(contacts[i].name)})

NamesOf(contacts) == [i \in 1..Len(contacts) |-> contacts[i].name]

\* C13: the unique-name pass over the name-sorted missing list renames the
\* k-th entry of every maximal run of two or more entries with the same
\* lower-cased name to "<name> (k)", counting from 1 in every run; an entry
\* whose name occurs once keeps its name; with the policy disabled the pass
\* changes no name.
C13_RunsNumbered ==
    [][(pc = "write" /\ pc' = "save") =>
          /\ Len(sortedMissingContacts') = Len(sortedMissingContacts)
          /\ \A i \in 1..Len(sortedMissingContacts) :
                LET name == sortedMissingContacts[i].name
                    run == RunOf(sortedMissingContacts, i)
                    k == Cardinality({j \in run : j <= i})
                IN /\ sortedMissingContacts'[i].phone = sortedMissingContacts[i].phone
                   /\ Cardinality(run) >= 2 =>
                          sortedMissingContacts'[i].name = name \o " (" \o ToString(k) \o ")"
                   /\ Occurrences(sortedMissingContacts, i) = 1 =>
                          sortedMissingContacts'[i].name = name
          /\ UniqueNames(sortedMissingContacts, duplicateNamesMap, FALSE, 0, "")
                 = NamesOf(sortedMissingContacts)]_vars

\* two runs were numbered, each from 1, next to a name that occurs once
C13_Witness ==
    /\ Written
    /\ \E i \in 1..Len(sortedMissingContacts) :
          i + 4 <= Len(sortedMissingContacts)
          /\ SubSeq(NamesOf(sortedMissingContacts), i, i + 4)
                 = <<"Amit (1)", "Amit (2)", "Bob (1)", "Bob (2)", "Y">>

\* the files of a corpus that were ingested to their end or to their failure
Finished(corpus) == {i \in 1..Len(outcomes) : outcomes[i].corpus = corpus}

Failed == {i \in 1..Len(outcomes) : ~outcomes[i].ok}

IngestionOver == pc \notin {"master", "compare"}

\* a step in which the ingestion of a file fails
FileFails == Len(outcomes') = Len(outcomes) + 1 /\ ~outcomes'[Len(outcomes')].ok

\* C14: a failure while ingesting a file adds exactly one to stats.errors and
\* emits one 'error' event, and the run goes on: when the ingestion is over,
\* every file of the master directory and of the comparison directory has
\* been walked, whatever number of them failed.
C14_FailureCaughtPerFile ==
    /\ [][/\ FileFails => /\ stats'.errors = stats.errors + 1
                          /\ errorEvents' = errorEvents + 1
                          /\ pc' = pc
          /\ ~FileFails => /\ stats'.errors = stats.errors
                           /\ errorEvents' = errorEvents]_vars
    /\ [](IngestionOver => /\ Cardinality(Finished("master")) = masterDir
                           /\ Cardinality(Finished("compare")) = compareDir
                           /\ stats.totalFiles = masterDir + compareDir
                           /\ stats.errors = Cardinality(Failed))

\* a file failed and a later file was still ingested, contacts included
C14_Witness ==
    /\ pc = "done"
    /\ \E i, j \in 1..Len(outcomes) : i < j /\ ~outcomes[i].ok /\ outcomes[j].ok
    /\ outcomes[Len(outcomes)].corpus = "compare"
    /\ compareContacts # <<>>
    /\ stats.errors = 1

\* the files of a corpus whose ingestion completed without error
Completed(corpus) == {i \in Finished(corpus) : outcomes[i].ok}

\* C15 as stated: at the end of a run stats.processed is the number of files,
\* master and comparison together, that completed without error, so that
\* processed + errors = totalFiles.
C15_ProcessedCountsAllFiles ==
    pc = "done" =>
        /\ stats.processed = Cardinality(Completed("master")) + Cardinality(Completed("compare"))
        /\ stats.processed + stats.errors = stats.totalFiles

\* C15 amended: at the end of a run stats.processed is the number of master
\* files that completed without error; the comparison files that completed
\* are counted in totalFiles only, so processed + errors + completed
\* comparison files = totalFiles.
C15_ProcessedCountsMasterFiles ==
    pc = "done" =>
        /\ stats.processed = Cardinality(Completed("master"))
        /\ stats.processed + stats.errors + Cardinality(Completed("compare"))
               = stats.totalFiles

\* a master file and a comparison file both completed without error
C15_Witness ==
    /\ pc = "done"
    /\ Completed("master") # {}
    /\ Completed("compare") # {}
    /\ stats.processed = 1
    /\ stats.totalFiles = 2

EndToEndMaster == <<[phone |-> "9000000001", name |-> "X"]>>

EndToEndCompare ==
    <<[phone |-> "9000000001", name |-> "X"], [phone |-> "9000000002", name |-> "Y"]>>

EndToEndRun ==
    /\ pc = "done"
    /\ masterOffered = EndToEndMaster
    /\ compareOffered = EndToEndCompare

\* C16: a run whose master corpus yields the single identity (9000000001, "X")
\* and whose comparison corpus yields (9000000001, "X") and (9000000002, "Y")
\* ends with the missing set {(9000000002, "Y")} and the statistics
\* totalMasterContacts = 1, uniqueMasterContacts = 1, totalCompareContacts = 2,
\* uniqueCompareContacts = 2, missing = 1.
C16_EndToEnd ==
    EndToEndRun =>
        /\ missingContacts = <<[phone |-> "9000000002", name |-> "Y"]>>
        /\ sortedMissingContacts = missingContacts
        /\ stats.totalMasterContacts = 1
        /\ stats.uniqueMasterContacts = 1
        /\ stats.totalCompareContacts = 2
        /\ stats.uniqueCompareContacts = 2
        /\ stats.missing = 1

\* the scenario was run to its end, one file per corpus, none failing
C16_Witness ==
    /\ EndToEndRun
    /\ outcomes = <<[corpus |-> "master", ok |-> TRUE], [corpus |-> "compare", ok |-> TRUE]>>
    /\ stats.missing = 1

\* the identities a step hands to addToCompareContacts
NewlyOffered == SubSeq(compareOffered', Len(compareOffered) + 1, Len(compareOffered'))

\* a bare number: the name is absent or is the phone itself
Bare(c) == c.name = "" \/ c.name = c.phone

\* C17: when a phone that is already a key of the comparison store arrives
\* again as a bare number, the insertion is skipped and the identity stored
\* for that phone keeps its earlier name.
C17_BareNumberKeepsEarlierName ==
    [][pc = "compare" =>
          \A p \in MapKeys(compareContacts) :
              ((\E i \in 1..Len(NewlyOffered) : NewlyOffered[i].phone = p)
               /\ (\A i \in 1..Len(NewlyOffered) :
                      NewlyOffered[i].phone = p => Bare(NewlyOffered[i])))
                  => /\ MapHas(compareContacts', p)
                     /\ MapGet(compareContacts', p).name = MapGet(compareContacts, p).name]_vars

\* the name C18 gives to an identity: the placeholder when the name, an empty
\* name taken as the phone, is the phone, starts with "name" or "caller" in
\* any case, or is "0"; the name itself otherwise
NameByEquality(c) ==
    LET named == IF c.name = "" THEN c.phone ELSE c.name
    IN IF \/ named = c.phone
          \/ \E n \in replaceNamesStartingWith : StartsWith(ToLowerCase(named), n)
          \/ named = "0"
       THEN prefixIfNoName \o " " \o SliceLast(c.phone, 5)
       ELSE named

\* C18: addToCompareContacts replaces the name by "KAS " + the last five
\* characters of the phone if and only if the name (an empty name defaulted
\* to the phone) equals the phone, starts case-insensitively with "name" or
\* "caller", or is exactly "0"; otherwise the name is stored unchanged. Every
\* entry a step writes into the comparison store carries that name.
C18_PlaceholderIffBareOrGeneric ==
    [][pc = "compare" =>
          \A p \in MapKeys(compareContacts') :
              \/ MapHas(compareContacts, p)
                 /\ MapGet(compareContacts', p) = MapGet(compareContacts, p)
              \/ \E i \in 1..Len(NewlyOffered) :
                    /\ NewlyOffered[i].phone = p
                    /\ MapGet(compareContacts', p).name = NameByEquality(NewlyOffered[i])]_vars

\* C19: from the start of the missing-set computation to the end of the run
\* no step changes a key of the master or comparison store, nor the phone or
\* the name of an identity held in them.
C19_StoresReadOnlyAfterIngestion ==
    [][IngestionOver =>
          /\ masterContacts' = masterContacts
          /\ compareContacts' = compareContacts]_vars

AllFilesFinished ==
    /\ file = ""
    /\ Cardinality(Finished("master")) = masterDir
    /\ Cardinality(Finished("compare")) = compareDir

\* C20: once an identity has been handed to the comparison store no step
\* inserts into the master store, the first comparison insertion comes after
\* the master walk has finished all its files, and the missing-set
\* computation starts only when every file of both walks has been ingested
\* or has failed.
C20_PhaseOrdering ==
    [][/\ compareOffered # <<>> =>
              /\ masterOffered' = masterOffered
              /\ masterContacts' = masterContacts
       /\ compareOffered' # compareOffered =>
              Cardinality(Finished("master")) = masterDir
       /\ (pc = "diff" \/ missingContacts' # missingContacts
                       \/ duplicateNamesMap' # duplicateNamesMap) => AllFilesFinished]_vars

\* both stores were filled, a file failed, and the missing set was computed
C20_Witness ==
    /\ pc = "sort"
    /\ masterOffered # <<>>
    /\ compareOffered # <<>>
    /\ Failed # {}
    /\ missingContacts # <<>>

CanonicalizesToPhone(column) == toPhoneNumber(column.val) # ""

\* C21: for a tabular record createContactKey returns one identity per column
\* whose value canonicalizes to a non-empty phone, in column order, the phone
\* being that canonical value, and every identity of the record carries the
\* same normalized name; a record without such a column yields the empty list.
C21_OneIdentityPerPhoneColumn ==
    stage = "keys" =>
        LET columns == SelectSeq(raw.cols, CanonicalizesToPhone)
        IN /\ Len(result) = Len(columns)
           /\ \A i \in 1..Len(result) :
                 /\ result[i].phone = toPhoneNumber(columns[i].val)
                 /\ result[i].name = result[1].name
                 /\ result[i].name = cleanupName(Field(raw, "name"))

\* a row with three phone columns and a name gave three identities of that name
C21_Witness ==
    /\ stage = "keys"
    /\ Len(raw.cols) = 4
    /\ Len(result) = 3
    /\ result[1].phone # result[2].phone
    /\ \A i \in 1..3 : result[i].name = "Amit"

\* C22: the result of cleanupName never begins or ends with a slash, and never
\* begins or ends with whitespace.
C22_NoOuterSlashOrWhitespace ==
    (stage \in {"cleaned", "recleaned"} /\ result # "") =>
        /\ Head(result) \notin {"/"} \cup Whitespace
        /\ Char(result, Len(result)) \notin {"/"} \cup Whitespace

\* the calls of addToCompareContacts with this phone that stored their identity
AdmittedAt(phone) ==
    {i \in OfferedAt(compareOffered, phone) : compareAdmitted[i]}

BeforeRename == pc \in {"master", "compare", "diff", "sort", "write"}

\* C23: for every phone handed to addToCompareContacts the comparison store
\* holds the identity of the most recent call with that phone that satisfied
\* the conditions, under the name that call resolved; a phone none of whose
\* calls satisfied them is not a key. A later admitted identity replaces an
\* earlier one, a later rejected one leaves it in place.
C23_LastAdmittedWins ==
    BeforeRename =>
        /\ \A i \in 1..Len(compareOffered) :
              LET phone == compareOffered[i].phone
                  admitted == AdmittedAt(phone)
              IN IF admitted = {} THEN ~MapHas(compareContacts, phone)
                 ELSE /\ MapHas(compareContacts, phone)
                      /\ MapGet(compareContacts, phone) =
                             [phone |-> phone,
                              name |-> ResolvedName(phone, compareOffered[Last(admitted)].name)]
        /\ \A p \in MapKeys(compareContacts) : AdmittedAt(p) # {}

\* one phone was admitted under a name, admitted again under another name and
\* then rejected: the store holds the second name
C23_Witness ==
    /\ pc = "compare"
    /\ \E i, j, k \in 1..Len(compareOffered) :
          /\ i < j /\ j < k
          /\ compareOffered[i].phone = compareOffered[k].phone
          /\ compareOffered[j].phone = compareOffered[k].phone
          /\ compareAdmitted[i] /\ compareAdmitted[j] /\ ~compareAdmitted[k]
          /\ ResolvedName(compareOffered[i].phone, compareOffered[i].name)
                 # ResolvedName(compareOffered[j].phone, compareOffered[j].name)
          /\ MapGet(compareContacts, compareOffered[j].phone).name
                 = ResolvedName(compareOffered[j].phone, compareOffered[j].name)

Ingesting == pc \in {"master", "compare"}

\* C24: during ingestion every entry of the comparison store has a phone
\* whose numeric value exceeds 6,000,000,000, that starts with no blocked
\* prefix and ends with no blocked suffix, and a stored name whose lower-case
\* form contains no blocked keyword.
C24_StoredEntriesPassFilters ==
    Ingesting =>
        \A i \in 1..Len(compareContacts) :
            LET phone == compareContacts[i].key
                name == compareContacts[i].value.name
            IN /\ NumberGreaterThan(phone, numericFloor)
               /\ \A prefix \in blockedPhonePrefixes : ~StartsWith(phone, prefix)
               /\ \A suffix \in blockedPhoneSuffixes : ~EndsWith(phone, suffix)
               /\ ~HasBlockedKeyword(name)

\* a phone with a blocked prefix and a phone with a blocked suffix were
\* offered next to a phone that was stored
C24_Witness ==
    /\ pc = "compare"
    /\ \E i \in 1..Len(compareOffered) : StartsWith(compareOffered[i].phone, "94544")
    /\ \E i \in 1..Len(compareOffered) : EndsWith(compareOffered[i].phone, "000000")
    /\ compareContacts # <<>>

\* C28: no two entries of the missing list have phones with equal trailing 10
\* digits; in particular no two entries have the same phone.
C28_MissingDeduplicated ==
    DiffDone =>
        \A i, j \in 1..Len(missingContacts) :
            i # j => TrailingTenDigits(missingContacts[i].phone)
                         # TrailingTenDigits(missingContacts[j].phone)

\* the keys of an identities map with the name stored under each
KeysAndNames(map) == {<<map[i].key, map[i].value.name>> : i \in 1..Len(map)}

\* C25: ingesting the same sequences of identities a second time leaves the
\* master store and the comparison store with the same keys and the same
\* names as after the first ingestion.
C25_ReingestionIdempotent ==
    stage = "reingested" =>
        /\ KeysAndNames(again.master) = KeysAndNames(masterContacts)
        /\ KeysAndNames(again.compare) = KeysAndNames(compareContacts)

\* both corpora were ingested twice; the comparison corpus holds a phone that
\* was admitted under two names
C25_Witness ==
    /\ stage = "reingested"
    /\ masterContacts # <<>>
    /\ again.master # <<>>
    /\ \E i, j \in 1..Len(compareOffered) :
          /\ compareOffered[i].phone = compareOffered[j].phone
          /\ compareOffered[i].name # compareOffered[j].name
          /\ compareAdmitted[i] /\ compareAdmitted[j]

\* C26: the missing sequence is in ascending case-insensitive order of the
\* names it is serialized with: after the unique-name pass no entry's final
\* name is smaller than the final name of the entry before it.
C26_SortedByFinalNames ==
    Written =>
        \A i \in 1..Len(sortedMissingContacts) - 1 :
            localeCompare(ToLowerCase(sortedMissingContacts[i].name),
                          ToLowerCase(sortedMissingContacts[i + 1].name)) <= 0

\* C27: toPhoneNumber is idempotent on every input with a non-empty result:
\* toPhoneNumber(toPhoneNumber(x)) = toPhoneNumber(x).
C27_ToPhoneNumberIdempotent ==
    (stage = "rephoned" /\ result # "") => again = result

\* every key of the identities map is counted at least once in the frequency map
KeysCounted(identities, frequency) ==
    /\ \A k \in MapKeys(identities) : MapHas(frequency, k) /\ MapGet(frequency, k) >= 1
    /\ Len(identities) <= Len(frequency)

\* C29: in every reachable state, for each corpus, every key of the identities
\* map is a key of that corpus's duplicate-frequency map with a count of at
\* least 1, hence identities.size <= duplicateFrequency.size.
C29_StoredKeysAreCounted ==
    /\ KeysCounted(masterContacts, duplicateMasterContacts)
    /\ KeysCounted(compareContacts, duplicateCompareContacts)

\* both stores hold identities, and the comparison corpus offered a phone
\* that was counted but not stored
C29_Witness ==
    /\ masterContacts # <<>>
    /\ compareContacts # <<>>
    /\ Len(compareContacts) < Len(duplicateCompareContacts)

\* C30: when the ingestion of a file fails, the identities already inserted
\* from it, their duplicate-frequency increments and their contribution to
\* totalMasterContacts and totalCompareContacts remain, and the file is
\* counted in totalFiles and in errors.
C30_NoRollbackOnFailure ==
    /\ [][FileFails =>
             /\ masterContacts' = masterContacts
             /\ compareContacts' = compareContacts
             /\ duplicateMasterContacts' = duplicateMasterContacts
             /\ duplicateCompareContacts' = duplicateCompareContacts
             /\ stats' = [stats EXCEPT !.errors = @ + 1]]_vars
    /\ [](/\ stats.totalFiles = Len(outcomes) + (IF file # "" THEN 1 ELSE 0)
          /\ stats.totalMasterContacts = Len(masterOffered)
          /\ stats.totalCompareContacts = CountNonEmptyPhones(compareOffered))

\* a master file and a comparison file failed after records of theirs had
\* been stored and counted
C30_Witness ==
    /\ outcomes = <<[corpus |-> "master", ok |-> FALSE], [corpus |-> "compare", ok |-> FALSE]>>
    /\ masterContacts # <<>>
    /\ compareContacts # <<>>
    /\ stats.totalMasterContacts >= 1
    /\ stats.totalCompareContacts >= 1
    /\ stats.totalFiles = 2
    /\ stats.errors = 2

====
